---- MODULE Spec2Model ----
(***************************************************************************)
(* The chat server of cmd/server/server.go: one handler goroutine per      *)
(* accepted connection, the clients/addr registry and the task ledger      *)
(* behind one mutex, the history log appended outside the mutex, and the   *)
(* broadcast that writes to every registered handle under the mutex.       *)
(* Lines and messages are strings; the parsing and formatting operators    *)
(* work on their characters as the Go library functions do.                *)
(***************************************************************************)
EXTENDS Naturals, Sequences, FiniteSets, TLC

\* The connection handles the listener may hand out.
Conns == {1, 2, 3, 4}

\* Most lines the clients send in one run, all clients together.
MaxSends == 3

\* No handle: the mutex is free.
NoConn == 0

VARIABLES
    pc,             \* where each connection's handler goroutine stands
    clients,        \* map[net.Conn]string: handle -> nickname
    addr,           \* map[net.Conn]string: handle -> remote address
    mutex,          \* the handler holding the mutex, or NoConn
    nickname,       \* each handler's local nickname variable
    line,           \* the trimmed line a handler is executing
    tasks,          \* map[string]Task
    taskIDCounter,  \* the last task id handed out
    historyLog,     \* the lines of history.log, front to back
    inbox,          \* lines arrived on a connection and not yet read
    out,            \* every conn.Write the server made on a handle, in order
    closed,         \* the server called conn.Close() on the handle
    peerClosed,     \* the client closed its end
    logFile,        \* each handler's history log file: "none", "open", "closed"
    pending,        \* the broadcast a handler is about to make or is making
    todo,           \* recipients a running broadcast has not written to yet
    hpos,           \* lines a running /history replay has sent
    menu,           \* this run's clients: the lines each may send, who may
                    \* hang up, whose history log may fail to open
    sent,           \* lines sent so far, all clients together
    bcasts,         \* history: every broadcastMessage call, in lock order
    assigned,       \* history: every task id handed out, in order
    renamed,        \* history: the last nickname change of a registered session
    replays         \* history: each session's last /history replay

vars == <<pc, clients, addr, mutex, nickname, line, tasks, taskIDCounter,
          historyLog, inbox, out, closed, peerClosed, logFile, pending, todo,
          hpos, menu, sent, bcasts, assigned, renamed, replays>>

----------------------------------------------------------------------------
\* strings, strconv and fmt, on TLC's strings

Char(s, i) == SubSeq(s, i, i)

\* strings.HasPrefix
HasPrefix(s, prefix) ==
    Len(s) >= Len(prefix) /\ SubSeq(s, 1, Len(prefix)) = prefix

IsSpaceNewline(ch) == ch \in {"\n", "\r"}

\* unicode.IsSpace, for the characters of the model's lines
IsSpace(ch) == ch \in {" ", "\n", "\t", "\r"}

RECURSIVE TrimLeft(_)
TrimLeft(s) ==
    IF Len(s) > 0 /\ IsSpace(Char(s, 1)) THEN TrimLeft(SubSeq(s, 2, Len(s))) ELSE s

RECURSIVE TrimRight(_)
TrimRight(s) ==
    IF Len(s) > 0 /\ IsSpace(Char(s, Len(s)))
    THEN TrimRight(SubSeq(s, 1, Len(s) - 1))
    ELSE s

\* strings.TrimSpace
TrimSpace(s) == TrimRight(TrimLeft(s))

\* strings.Index(s, sep): the first position of sep in s, 0 when there is none
Index(s, sep) ==
    LET hits == {i \in 1..Len(s) : HasPrefix(SubSeq(s, i, Len(s)), sep)}
    IN  IF hits = {} THEN 0 ELSE CHOOSE i \in hits : \A j \in hits : i <= j

\* strings.SplitN(s, sep, n) for n >= 1: at most n parts, the last one the
\* unsplit remainder
RECURSIVE SplitN(_, _, _)
SplitN(s, sep, n) ==
    LET i == Index(s, sep)
    IN  IF n <= 1 \/ i = 0
        THEN <<s>>
        ELSE <<SubSeq(s, 1, i - 1)>>
             \o SplitN(SubSeq(s, i + Len(sep), Len(s)), sep, n - 1)

\* strings.Join
RECURSIVE Join(_, _)
Join(parts, sep) ==
    IF Len(parts) = 0 THEN ""
    ELSE IF Len(parts) = 1 THEN parts[1]
    ELSE parts[1] \o sep \o Join(Tail(parts), sep)

Digit(d) == Char("0123456789", d + 1)

\* fmt.Sprintf("%d", n)
RECURSIVE Itoa(_)
Itoa(n) == IF n < 10 THEN Digit(n) ELSE Itoa(n \div 10) \o Digit(n % 10)

\* every ordering of a finite set: the orders a range over a Go map can take
RECURSIVE Orders(_)
Orders(S) ==
    IF S = {} THEN {<<>>}
    ELSE UNION {{<<x>> \o rest : rest \in Orders(S \ {x})} : x \in S}

----------------------------------------------------------------------------
\* the messages the server formats

\* time.Now().Format(time.RFC1123): the clock is not modelled, every entry
\* carries the same instant
Now == "Sun, 01 Nov 2026 07:00:00 UTC"

DefaultNickname == "Anonymous"

RemoteAddr(c) == "10.0.0." \o Itoa(c) \o ":5000"

GoodbyeMsg == "Goodbye!\n"

ChatMsg(nick, message) == nick \o ": " \o message \o "\n"

DepartMsg(nick) == nick \o " disconnected from the chat!\n"

NickReply(new) == "Nickname changed to " \o new \o "\n"

NickNotice(old, new) ==
    "'" \o old \o "' changed nickname to '" \o new \o "'\n"

UsersReply(users) == "Connected users: " \o Join(users, ", ") \o "\n"

LogEntry(now, nick, message) == now \o ": " \o nick \o " - " \o message \o "\n"

TaskAddedMsg(taskID) == "Task added with ID " \o taskID \o "\n"

TaskLineBad(task) ==
    "ID: " \o task.ID \o ", Owner: " \o task.Description
        \o ", Description: " \o task.Owner

TaskLine(task) ==
    "ID: " \o task.ID \o ", Owner: " \o task.Owner
        \o ", Description: " \o task.Description

NoTasksMsg == "No tasks found.\n"

TaskDeletedMsg == "Task deleted successfully.\n"

TaskNotFoundMsg == "Task not found.\n"

\* bufio.Scanner's Text() with ScanLines: the line without its "\n" and
\* without a "\r" before it
ScanText(l) ==
    LET a == IF Len(l) > 0 /\ Char(l, Len(l)) = "\n"
             THEN SubSeq(l, 1, Len(l) - 1) ELSE l
    IN  IF Len(a) > 0 /\ Char(a, Len(a)) = "\r"
        THEN SubSeq(a, 1, Len(a) - 1) ELSE a

----------------------------------------------------------------------------
\* maps

Put(m, k, v) == [x \in DOMAIN m \cup {k} |-> IF x = k THEN v ELSE m[x]]

Delete(m, k) == [x \in DOMAIN m \ {k} |-> m[x]]

EmptyMap == [x \in {} |-> ""]

\* one conn.Write on handle c, as the server sees it: it fails on a handle the
\* server has closed
Written(o, c, data, tag, b) ==
    [o EXCEPT ![c] = Append(@, [data |-> data, tag |-> tag, bid |-> b,
                                ok |-> ~closed[c]])]

NoPending == [msg |-> "", kind |-> "none", next |-> "read", bid |-> 0]

NoRename == [old |-> "", new |-> "", set |-> FALSE]

NoReplay == [lines |-> <<>>, from |-> 0, state |-> "none"]

----------------------------------------------------------------------------
\* the command dispatch of handleCommands

Command(message) ==
    IF HasPrefix(message, "/quit") THEN "quit"
    ELSE IF HasPrefix(message, "/history") THEN "history"
    ELSE IF HasPrefix(message, "/nickname") THEN "nickname"
    ELSE IF HasPrefix(message, "/users") THEN "users"
    ELSE IF HasPrefix(message, "/task add") THEN "taskadd"
    ELSE IF HasPrefix(message, "/task list") THEN "tasklist"
    ELSE IF HasPrefix(message, "/task delete") THEN "taskdel"
    ELSE "chat"

\* the parts the command's SplitN must yield for the command to act
PartsNeeded(cmd) ==
    IF cmd = "nickname" THEN 2 ELSE IF cmd \in {"taskadd", "taskdel"} THEN 3 ELSE 0

Parts(cmd, message) == SplitN(message, " ", PartsNeeded(cmd))

WellFormed(cmd, message) ==
    PartsNeeded(cmd) = 0 \/ Len(Parts(cmd, message)) = PartsNeeded(cmd)

AfterDispatchFallsThrough(cmd, message) ==
    IF ~WellFormed(cmd, message) THEN "bcast"
    ELSE CASE cmd = "quit" -> "read"
           [] cmd = "history" -> "history"
           [] cmd = "nickname" -> "setnick"
           [] cmd = "users" -> "users"
           [] cmd = "taskadd" -> "taskadd"
           [] cmd = "tasklist" -> "tasklist"
           [] cmd = "taskdel" -> "taskdel"
           [] OTHER -> "bcast"

\* where the handler goes after handleCommands has looked at the line
AfterDispatch(cmd, message) ==
    IF ~WellFormed(cmd, message) THEN "read"
    ELSE CASE cmd = "quit" -> "read"
           [] cmd = "history" -> "history"
           [] cmd = "nickname" -> "setnick"
           [] cmd = "users" -> "users"
           [] cmd = "taskadd" -> "taskadd"
           [] cmd = "tasklist" -> "tasklist"
           [] cmd = "taskdel" -> "taskdel"
           [] OTHER -> "bcast"

LogMessageFirst(log, c, nick, message) ==
    <<[line |-> LogEntry(Now, nick, message), by |-> c]>> \o log

\* logMessage: one WriteString on the handler's O_APPEND file
LogMessage(log, c, nick, message) ==
    Append(log, [line |-> LogEntry(Now, nick, message), by |-> c])

RecipientsAll(sender) == DOMAIN clients

\* the handles broadcastMessage writes to
Recipients(sender) == {conn \in DOMAIN clients : conn # sender}

NextTaskIDByCount == Cardinality(DOMAIN tasks) + 1

\* taskIDCounter++
NextTaskID == taskIDCounter + 1

----------------------------------------------------------------------------
\* the state after main has started listening

InitWith(live, m) ==
    /\ pc = [c \in Conns |-> IF c \in live THEN "idle" ELSE "off"]
    /\ clients = EmptyMap
    /\ addr = EmptyMap
    /\ mutex = NoConn
    /\ nickname = [c \in Conns |-> DefaultNickname]
    /\ line = [c \in Conns |-> ""]
    /\ tasks = EmptyMap
    /\ taskIDCounter = 0
    /\ historyLog = <<>>
    /\ inbox = [c \in Conns |-> <<>>]
    /\ out = [c \in Conns |-> <<>>]
    /\ closed = [c \in Conns |-> FALSE]
    /\ peerClosed = [c \in Conns |-> FALSE]
    /\ logFile = [c \in Conns |-> "none"]
    /\ pending = [c \in Conns |-> NoPending]
    /\ todo = [c \in Conns |-> {}]
    /\ hpos = [c \in Conns |-> 0]
    /\ menu = m
    /\ sent = 0
    /\ bcasts = <<>>
    /\ assigned = <<>>
    /\ renamed = [c \in Conns |-> NoRename]
    /\ replays = [c \in Conns |-> NoReplay]

----------------------------------------------------------------------------
\* the clients

\* a client writes one line to its connection
Send(c) ==
    /\ pc[c] \notin {"off", "idle", "done"}
    /\ ~peerClosed[c] /\ ~closed[c]
    /\ sent < MaxSends
    /\ \E l \in menu.lines[c] : inbox' = [inbox EXCEPT ![c] = Append(@, l)]
    /\ sent' = sent + 1
    /\ UNCHANGED <<pc, clients, addr, mutex, nickname, line, tasks,
                   taskIDCounter, historyLog, out, closed, peerClosed, logFile,
                   pending, todo, hpos, menu, bcasts, assigned, renamed, replays>>

\* a client closes its end, or its connection is reset
PeerClose(c) ==
    /\ pc[c] \notin {"off", "idle", "done"}
    /\ c \in menu.hangup
    /\ ~peerClosed[c]
    /\ peerClosed' = [peerClosed EXCEPT ![c] = TRUE]
    /\ UNCHANGED <<pc, clients, addr, mutex, nickname, line, tasks,
                   taskIDCounter, historyLog, inbox, out, closed, logFile,
                   pending, todo, hpos, menu, sent, bcasts, assigned, renamed,
                   replays>>

----------------------------------------------------------------------------
\* the mutex

\* where a handler calls mutex.Lock() to work on the registry or the ledger and
\* releases the mutex when that work is done; while it holds the mutex there,
\* mutex = c. broadcastMessage has its own steps below.
LockPoints ==
    {"register", "defer", "setnick", "users", "taskadd", "tasklist", "taskdel"}

\* mutex.Lock() returns: the mutex was free and is the handler's now
Lock(c) ==
    /\ pc[c] \in LockPoints
    /\ mutex = NoConn
    /\ mutex' = c
    /\ UNCHANGED <<pc, clients, addr, nickname, line, tasks, taskIDCounter,
                   historyLog, inbox, out, closed, peerClosed, logFile, pending,
                   todo, hpos, menu, sent, bcasts, assigned, renamed, replays>>

----------------------------------------------------------------------------
\* main and handleConnection

\* listener.Accept() returns the connection and main starts its handler
Accept(c) ==
    /\ pc[c] = "idle"
    /\ pc' = [pc EXCEPT ![c] = "register"]
    /\ UNCHANGED <<clients, addr, mutex, nickname, line, tasks, taskIDCounter,
                   historyLog, inbox, out, closed, peerClosed, logFile, pending,
                   todo, hpos, menu, sent, bcasts, assigned, renamed, replays>>

\* the handler, holding the mutex, enters itself in clients and addr and
\* unlocks
Register(c) ==
    /\ pc[c] = "register"
    /\ mutex = c
    /\ clients' = Put(clients, c, nickname[c])
    /\ addr' = Put(addr, c, RemoteAddr(c))
    /\ mutex' = NoConn
    /\ pc' = [pc EXCEPT ![c] = "open"]
    /\ UNCHANGED <<nickname, line, tasks, taskIDCounter, historyLog,
                   inbox, out, closed, peerClosed, logFile, pending, todo, hpos,
                   menu, sent, bcasts, assigned, renamed, replays>>

\* os.OpenFile of the history log: on failure the handler returns; on success
\* it logs the connection, log.Printf reading addr[conn] without the mutex
OpenLog(c) ==
    /\ pc[c] = "open"
    /\ \E ok \in (IF c \in menu.openFails THEN BOOLEAN ELSE {TRUE}) :
          /\ pc' = [pc EXCEPT ![c] = IF ok THEN "read" ELSE "defer"]
          /\ logFile' = [logFile EXCEPT ![c] = IF ok THEN "open" ELSE "none"]
    /\ UNCHANGED <<clients, addr, mutex, nickname, line, tasks, taskIDCounter,
                   historyLog, inbox, out, closed, peerClosed, pending, todo,
                   hpos, menu, sent, bcasts, assigned, renamed, replays>>

\* ReadString returns a line and handleCommands runs up to its first use of
\* the mutex. The reader is a new bufio.Reader: what it read beyond the first
\* line is dropped with it.
ReadLine(c) ==
    /\ pc[c] = "read"
    /\ ~closed[c]
    /\ inbox[c] # <<>>
    /\ LET message == TrimSpace(Head(inbox[c]))
           cmd == Command(message)
           ok == WellFormed(cmd, message)
           parts == Parts(cmd, message)
       IN  /\ inbox' = [inbox EXCEPT ![c] = <<>>]
           /\ line' = [line EXCEPT ![c] = message]
           /\ pc' = [pc EXCEPT ![c] = AfterDispatch(cmd, message)]
           /\ out' = IF cmd = "quit"
                     THEN Written(out, c, GoodbyeMsg, "reply", 0) ELSE out
           /\ closed' = IF cmd = "quit"
                        THEN [closed EXCEPT ![c] = TRUE] ELSE closed
           /\ nickname' = IF cmd = "nickname" /\ ok
                          THEN [nickname EXCEPT ![c] = parts[2]] ELSE nickname
           /\ pending' =
                 IF cmd = "nickname" /\ ok
                 THEN [pending EXCEPT ![c] =
                         [msg |-> NickNotice(nickname[c], parts[2]),
                          kind |-> "nick", next |-> "read", bid |-> 0]]
                 ELSE IF cmd = "chat"
                 THEN [pending EXCEPT ![c] =
                         [msg |-> ChatMsg(nickname[c], message),
                          kind |-> "chat", next |-> "read", bid |-> 0]]
                 ELSE pending
           /\ historyLog' = IF cmd = "chat"
                            THEN LogMessage(historyLog, c, nickname[c], message)
                            ELSE historyLog
           /\ hpos' = IF cmd = "history" THEN [hpos EXCEPT ![c] = 0] ELSE hpos
           /\ replays' = IF cmd = "history"
                         THEN [replays EXCEPT ![c] =
                                 [lines |-> <<>>, from |-> Len(historyLog),
                                  state |-> "running"]]
                         ELSE replays
    /\ UNCHANGED <<clients, addr, mutex, tasks, taskIDCounter, peerClosed,
                   logFile, todo, menu, sent, bcasts, assigned, renamed>>

ReadFailSilent(c) ==
    /\ pc[c] = "read"
    /\ closed[c] \/ (inbox[c] = <<>> /\ peerClosed[c])
    /\ pc' = [pc EXCEPT ![c] = "defer"]
    /\ UNCHANGED <<clients, addr, mutex, nickname, line, tasks, taskIDCounter,
                   historyLog, inbox, out, closed, peerClosed, logFile, pending,
                   todo, hpos, menu, sent, bcasts, assigned, renamed, replays>>

\* ReadString fails: the handle is closed, or the peer is gone and nothing is
\* left to read. The handler logs it, log.Printf reading addr[conn] without
\* the mutex, announces the departure and leaves the loop.
ReadFail(c) ==
    /\ pc[c] = "read"
    /\ closed[c] \/ (inbox[c] = <<>> /\ peerClosed[c])
    /\ pending' = [pending EXCEPT ![c] =
                     [msg |-> DepartMsg(nickname[c]), kind |-> "depart",
                      next |-> "defer", bid |-> 0]]
    /\ pc' = [pc EXCEPT ![c] = "bcast"]
    /\ UNCHANGED <<clients, addr, mutex, nickname, line, tasks, taskIDCounter,
                   historyLog, inbox, out, closed, peerClosed, logFile, todo,
                   hpos, menu, sent, bcasts, assigned, renamed, replays>>

DeregisterClientsOnly(c) ==
    /\ pc[c] = "defer"
    /\ mutex = c
    /\ clients' = Delete(clients, c)
    /\ closed' = [closed EXCEPT ![c] = TRUE]
    /\ logFile' = [logFile EXCEPT ![c] = IF @ = "open" THEN "closed" ELSE @]
    /\ renamed' = [renamed EXCEPT ![c] = NoRename]
    /\ mutex' = NoConn
    /\ pc' = [pc EXCEPT ![c] = "done"]
    /\ UNCHANGED <<addr, nickname, line, tasks, taskIDCounter,
                   historyLog, inbox, out, peerClosed, pending, todo, hpos,
                   menu, sent, bcasts, assigned, replays>>

\* the deferred calls: logFile.Close(), then, holding the mutex, the removal
\* from both maps, mutex.Unlock() and conn.Close()
Deregister(c) ==
    /\ pc[c] = "defer"
    /\ mutex = c
    /\ clients' = Delete(clients, c)
    /\ addr' = Delete(addr, c)
    /\ closed' = [closed EXCEPT ![c] = TRUE]
    /\ logFile' = [logFile EXCEPT ![c] = IF @ = "open" THEN "closed" ELSE @]
    /\ renamed' = [renamed EXCEPT ![c] = NoRename]
    /\ mutex' = NoConn
    /\ pc' = [pc EXCEPT ![c] = "done"]
    /\ UNCHANGED <<nickname, line, tasks, taskIDCounter, historyLog,
                   inbox, out, peerClosed, pending, todo, hpos, menu, sent,
                   bcasts, assigned, replays>>

----------------------------------------------------------------------------
\* the commands

SetNickLocalOnly(c) ==
    /\ pc[c] = "setnick"
    /\ mutex = c
    /\ renamed' = [renamed EXCEPT ![c] =
                     [old |-> clients[c], new |-> nickname[c], set |-> TRUE]]
    /\ mutex' = NoConn
    /\ pc' = [pc EXCEPT ![c] = "nickreply"]
    /\ UNCHANGED <<clients, addr, nickname, line, tasks, taskIDCounter,
                   historyLog, inbox, out, closed, peerClosed, logFile, pending,
                   todo, hpos, menu, sent, bcasts, assigned, replays>>

SetNickWholeLine(c) ==
    /\ pc[c] = "setnick"
    /\ mutex = c
    /\ clients' = Put(clients, c, line[c])
    /\ renamed' = [renamed EXCEPT ![c] =
                     [old |-> clients[c], new |-> nickname[c], set |-> TRUE]]
    /\ mutex' = NoConn
    /\ pc' = [pc EXCEPT ![c] = "nickreply"]
    /\ UNCHANGED <<addr, nickname, line, tasks, taskIDCounter,
                   historyLog, inbox, out, closed, peerClosed, logFile, pending,
                   todo, hpos, menu, sent, bcasts, assigned, replays>>

SetNickKeepsLock(c) ==
    /\ pc[c] = "setnick"
    /\ mutex = c
    /\ clients' = Put(clients, c, nickname[c])
    /\ renamed' = [renamed EXCEPT ![c] =
                     [old |-> clients[c], new |-> nickname[c], set |-> TRUE]]
    /\ pc' = [pc EXCEPT ![c] = "nickreply"]
    /\ UNCHANGED <<addr, mutex, nickname, line, tasks, taskIDCounter,
                   historyLog, inbox, out, closed, peerClosed, logFile, pending,
                   todo, hpos, menu, sent, bcasts, assigned, replays>>

\* changeNickname, holding the mutex: clients[conn] = newNickname, and
\* mutex.Unlock()
SetNick(c) ==
    /\ pc[c] = "setnick"
    /\ mutex = c
    /\ clients' = Put(clients, c, nickname[c])
    /\ renamed' = [renamed EXCEPT ![c] =
                     [old |-> clients[c], new |-> nickname[c], set |-> TRUE]]
    /\ mutex' = NoConn
    /\ pc' = [pc EXCEPT ![c] = "nickreply"]
    /\ UNCHANGED <<addr, nickname, line, tasks, taskIDCounter,
                   historyLog, inbox, out, closed, peerClosed, logFile, pending,
                   todo, hpos, menu, sent, bcasts, assigned, replays>>

\* changeNickname, after the unlock: the reply to the requester and the log
\* line, log.Printf reading addr[conn] without the mutex; the notice to the
\* others is the broadcast that follows
NickReplied(c) ==
    /\ pc[c] = "nickreply"
    /\ out' = Written(out, c, NickReply(nickname[c]), "reply", 0)
    /\ pc' = [pc EXCEPT ![c] = "bcast"]
    /\ UNCHANGED <<clients, addr, mutex, nickname, line, tasks, taskIDCounter,
                   historyLog, inbox, closed, peerClosed, logFile, pending,
                   todo, hpos, menu, sent, bcasts, assigned, renamed, replays>>

\* sendUsersList, holding the mutex: the nicknames in the order the range over
\* clients takes, the reply to the requester, and the deferred mutex.Unlock()
Users(c) ==
    /\ pc[c] = "users"
    /\ mutex = c
    /\ \E order \in Orders(DOMAIN clients) :
          out' = Written(out, c,
                         UsersReply([i \in 1..Len(order) |-> clients[order[i]]]),
                         "users", 0)
    /\ mutex' = NoConn
    /\ pc' = [pc EXCEPT ![c] = "read"]
    /\ UNCHANGED <<clients, addr, nickname, line, tasks, taskIDCounter,
                   historyLog, inbox, closed, peerClosed, logFile, pending,
                   todo, hpos, menu, sent, bcasts, assigned, renamed, replays>>

\* addTask, holding the mutex: the new task, the reply to the requester, and
\* the deferred mutex.Unlock()
TaskAdd(c) ==
    /\ pc[c] = "taskadd"
    /\ mutex = c
    /\ LET description == Parts("taskadd", line[c])[3]
           taskID == Itoa(NextTaskID)
       IN  /\ taskIDCounter' = NextTaskID
           /\ tasks' = Put(tasks, taskID,
                           [ID |-> taskID, Description |-> description,
                            Owner |-> nickname[c]])
           /\ out' = Written(out, c, TaskAddedMsg(taskID), "taskadd", 0)
           /\ assigned' = Append(assigned, NextTaskID)
    /\ mutex' = NoConn
    /\ pc' = [pc EXCEPT ![c] = "read"]
    /\ UNCHANGED <<clients, addr, nickname, line, historyLog, inbox,
                   closed, peerClosed, logFile, pending, todo, hpos, menu, sent,
                   bcasts, renamed, replays>>

\* listTasks, holding the mutex: the tasks in the order the range over tasks
\* takes, the reply to the requester, and the deferred mutex.Unlock()
TaskList(c) ==
    /\ pc[c] = "tasklist"
    /\ mutex = c
    /\ \E order \in Orders(DOMAIN tasks) :
          LET taskDescriptions == [i \in 1..Len(order) |-> TaskLine(tasks[order[i]])]
          IN  out' = Written(out, c,
                             IF Len(taskDescriptions) = 0
                             THEN NoTasksMsg
                             ELSE Join(taskDescriptions, "; ") \o "\n",
                             "tasklist", 0)
    /\ mutex' = NoConn
    /\ pc' = [pc EXCEPT ![c] = "read"]
    /\ UNCHANGED <<clients, addr, nickname, line, tasks, taskIDCounter,
                   historyLog, inbox, closed, peerClosed, logFile, pending,
                   todo, hpos, menu, sent, bcasts, assigned, renamed, replays>>

TaskDelResetsCounter(c) ==
    /\ pc[c] = "taskdel"
    /\ mutex = c
    /\ LET taskID == Parts("taskdel", line[c])[3]
       IN  IF taskID \in DOMAIN tasks
           THEN /\ tasks' = Delete(tasks, taskID)
                /\ taskIDCounter' = taskIDCounter
                /\ out' = Written(out, c, TaskDeletedMsg, "taskdel", 0)
           ELSE /\ tasks' = tasks
                /\ taskIDCounter' = Cardinality(DOMAIN tasks)
                /\ out' = Written(out, c, TaskNotFoundMsg, "taskdel", 0)
    /\ mutex' = NoConn
    /\ pc' = [pc EXCEPT ![c] = "read"]
    /\ UNCHANGED <<clients, addr, nickname, line, historyLog,
                   inbox, closed, peerClosed, logFile, pending, todo, hpos,
                   menu, sent, bcasts, assigned, renamed, replays>>

\* deleteTask, holding the mutex: the removal, the reply to the requester, and
\* the deferred mutex.Unlock()
TaskDel(c) ==
    /\ pc[c] = "taskdel"
    /\ mutex = c
    /\ LET taskID == Parts("taskdel", line[c])[3]
       IN  IF taskID \in DOMAIN tasks
           THEN /\ tasks' = Delete(tasks, taskID)
                /\ out' = Written(out, c, TaskDeletedMsg, "taskdel", 0)
           ELSE /\ tasks' = tasks
                /\ out' = Written(out, c, TaskNotFoundMsg, "taskdel", 0)
    /\ mutex' = NoConn
    /\ pc' = [pc EXCEPT ![c] = "read"]
    /\ UNCHANGED <<clients, addr, nickname, line, taskIDCounter,
                   historyLog, inbox, closed, peerClosed, logFile, pending,
                   todo, hpos, menu, sent, bcasts, assigned, renamed, replays>>

\* sendHistory, one turn of its loop: the next line of the log goes to the
\* requester
HistSend(c) ==
    /\ pc[c] = "history"
    /\ hpos[c] < Len(historyLog)
    /\ LET message == ScanText(historyLog[hpos[c] + 1].line) \o "\n"
       IN  /\ out' = Written(out, c, message, "history", 0)
           /\ replays' = [replays EXCEPT ![c].lines = Append(@, message)]
    /\ hpos' = [hpos EXCEPT ![c] = @ + 1]
    /\ UNCHANGED <<pc, clients, addr, mutex, nickname, line, tasks,
                   taskIDCounter, historyLog, inbox, closed, peerClosed,
                   logFile, pending, todo, menu, sent, bcasts, assigned,
                   renamed>>

\* sendHistory: the scanner is at the end of the log
HistEnd(c) ==
    /\ pc[c] = "history"
    /\ hpos[c] >= Len(historyLog)
    /\ replays' = [replays EXCEPT ![c].state = "done"]
    /\ pc' = [pc EXCEPT ![c] = "read"]
    /\ UNCHANGED <<clients, addr, mutex, nickname, line, tasks, taskIDCounter,
                   historyLog, inbox, out, closed, peerClosed, logFile, pending,
                   todo, hpos, menu, sent, bcasts, assigned, renamed>>

----------------------------------------------------------------------------
\* broadcastMessage

BcastLockUnguarded(c) ==
    /\ pc[c] = "bcast"
    /\ mutex' = c
    /\ todo' = [todo EXCEPT ![c] = Recipients(c)]
    /\ bcasts' = Append(bcasts,
                        [by |-> c, kind |-> pending[c].kind,
                         msg |-> pending[c].msg, nick |-> nickname[c],
                         line |-> line[c], keys |-> DOMAIN clients])
    /\ pending' = [pending EXCEPT ![c].bid = Len(bcasts) + 1]
    /\ pc' = [pc EXCEPT ![c] = "bwrite"]
    /\ UNCHANGED <<clients, addr, nickname, line, tasks, taskIDCounter,
                   historyLog, inbox, out, closed, peerClosed, logFile, hpos,
                   menu, sent, assigned, renamed, replays>>

\* mutex.Lock(), and the range over clients begins
BcastLock(c) ==
    /\ pc[c] = "bcast"
    /\ mutex = NoConn
    /\ mutex' = c
    /\ todo' = [todo EXCEPT ![c] = Recipients(c)]
    /\ bcasts' = Append(bcasts,
                        [by |-> c, kind |-> pending[c].kind,
                         msg |-> pending[c].msg, nick |-> nickname[c],
                         line |-> line[c], keys |-> DOMAIN clients])
    /\ pending' = [pending EXCEPT ![c].bid = Len(bcasts) + 1]
    /\ pc' = [pc EXCEPT ![c] = "bwrite"]
    /\ UNCHANGED <<clients, addr, nickname, line, tasks, taskIDCounter,
                   historyLog, inbox, out, closed, peerClosed, logFile, hpos,
                   menu, sent, assigned, renamed, replays>>

BcastWriteStopsOnError(c) ==
    /\ pc[c] = "bwrite"
    /\ \E conn \in todo[c] :
          /\ out' = Written(out, conn, pending[c].msg, "bcast", pending[c].bid)
          /\ todo' = [todo EXCEPT ![c] = IF closed[conn] THEN {} ELSE @ \ {conn}]
    /\ UNCHANGED <<pc, clients, addr, mutex, nickname, line, tasks,
                   taskIDCounter, historyLog, inbox, closed, peerClosed,
                   logFile, pending, hpos, menu, sent, bcasts, assigned,
                   renamed, replays>>

\* one conn.Write of the loop, to a handle the range has not visited yet; its
\* error is not looked at
BcastWrite(c) ==
    /\ pc[c] = "bwrite"
    /\ \E conn \in todo[c] :
          /\ out' = Written(out, conn, pending[c].msg, "bcast", pending[c].bid)
          /\ todo' = [todo EXCEPT ![c] = @ \ {conn}]
    /\ UNCHANGED <<pc, clients, addr, mutex, nickname, line, tasks,
                   taskIDCounter, historyLog, inbox, closed, peerClosed,
                   logFile, pending, hpos, menu, sent, bcasts, assigned,
                   renamed, replays>>

BcastUnlockKeepsMutex(c) ==
    /\ pc[c] = "bwrite"
    /\ todo[c] = {}
    /\ pc' = [pc EXCEPT ![c] = pending[c].next]
    /\ UNCHANGED <<clients, addr, mutex, nickname, line, tasks, taskIDCounter,
                   historyLog, inbox, out, closed, peerClosed, logFile, pending,
                   todo, hpos, menu, sent, bcasts, assigned, renamed, replays>>

\* the range is over: the deferred mutex.Unlock()
BcastUnlock(c) ==
    /\ pc[c] = "bwrite"
    /\ todo[c] = {}
    /\ mutex' = NoConn
    /\ pc' = [pc EXCEPT ![c] = pending[c].next]
    /\ UNCHANGED <<clients, addr, nickname, line, tasks, taskIDCounter,
                   historyLog, inbox, out, closed, peerClosed, logFile, pending,
                   todo, hpos, menu, sent, bcasts, assigned, renamed, replays>>

----------------------------------------------------------------------------
\* the steps of one connection, by the part of the server they belong to

Lifecycle(c) ==
    \/ Send(c)
    \/ Accept(c)
    \/ Lock(c)
    \/ Register(c)
    \/ OpenLog(c)
    \/ ReadLine(c)

Departure(c) ==
    \/ PeerClose(c)
    \/ ReadFail(c)
    \/ Deregister(c)

Broadcast(c) ==
    \/ BcastLock(c)
    \/ BcastWrite(c)
    \/ BcastUnlock(c)

Rename(c) ==
    \/ SetNick(c)
    \/ NickReplied(c)

History(c) ==
    \/ HistSend(c)
    \/ HistEnd(c)

Ledger(c) ==
    \/ TaskAdd(c)
    \/ TaskList(c)
    \/ TaskDel(c)

\* a run's clients
Clients(lines, hangup, openFails) ==
    [lines |-> [c \in Conns |-> IF c \in DOMAIN lines THEN lines[c] ELSE {}],
     hangup |-> hangup, openFails |-> openFails]

----------------------------------------------------------------------------
\* the whole server: two clients, every command

Init ==
    InitWith({1, 2},
             Clients(1 :> {"hi\n", "/nickname bob\n", "/quit\n", "/task add fix bug\n"}
                     @@ 2 :> {"/users\n", "/history\n", "/task delete 1\n",
                              "/task list\n"},
                     {1}, {2}))

Next ==
    \E c \in Conns :
        \/ Lifecycle(c)
        \/ Departure(c)
        \/ Broadcast(c)
        \/ Rename(c)
        \/ Users(c)
        \/ History(c)
        \/ Ledger(c)

Spec == Init /\ [][Next]_vars

----------------------------------------------------------------------------
\* the chat: three clients, two that talk, one of them renaming itself and the
\* other hanging up

InitChat ==
    InitWith({1, 2, 3},
             Clients(1 :> {"hi\n", "/nickname bob\n"} @@ 2 :> {"yo\n"},
                     {2}, {}))

NextChat ==
    \E c \in Conns :
        \/ Lifecycle(c)
        \/ Departure(c)
        \/ Broadcast(c)
        \/ Rename(c)

SpecChat == InitChat /\ [][NextChat]_vars

----------------------------------------------------------------------------
\* the departures: three clients, one that renames itself and quits, one that
\* talks and hangs up

InitDepart ==
    InitWith({1, 2, 3},
             Clients(1 :> {"/nickname bob\n", "/quit\n"} @@ 2 :> {"yo\n"},
                     {2}, {}))

NextDepart ==
    \E c \in Conns :
        \/ Lifecycle(c)
        \/ Departure(c)
        \/ Broadcast(c)
        \/ Rename(c)

SpecDepart == InitDepart /\ [][NextDepart]_vars

----------------------------------------------------------------------------
\* the history log: two clients that talk and replay the history

InitHistory ==
    InitWith({1, 2},
             Clients(1 :> {"hi\n", "yo\n"} @@ 2 :> {"yo\n", "/history\n"},
                     {}, {}))

NextHistory ==
    \E c \in Conns :
        \/ Lifecycle(c)
        \/ Broadcast(c)
        \/ History(c)

SpecHistory == InitHistory /\ [][NextHistory]_vars

----------------------------------------------------------------------------
\* the task ledger: two clients that add, list and delete tasks

InitLedger ==
    InitWith({1, 2},
             Clients(1 :> {"/nickname bob\n", "/task add fix bug\n",
                           "/task delete 1\n"}
                     @@ 2 :> {"/task add x\n", "/task list\n",
                              "/task delete 2\n"},
                     {}, {}))

NextLedger ==
    \E c \in Conns :
        \/ Lifecycle(c)
        \/ Broadcast(c)
        \/ Rename(c)
        \/ Ledger(c)

SpecLedger == InitLedger /\ [][NextLedger]_vars

----------------------------------------------------------------------------
\* the broadcast: four clients, two of them talking

InitBcast ==
    InitWith({1, 2, 3, 4}, Clients(1 :> {"hi\n"} @@ 2 :> {"yo\n"}, {}, {}))

NextBcast ==
    \E c \in Conns :
        \/ Lifecycle(c)
        \/ Broadcast(c)

SpecBcast == InitBcast /\ [][NextBcast]_vars

----------------------------------------------------------------------------
\* the dispatch: two clients, one sending commands without their argument,
\* the other well-formed ones

InitMalformed ==
    InitWith({1, 2},
             Clients(1 :> {"/nickname\n", "/nickname \n", "/nicknamebob\n",
                           "/task add \n", "/task addx\n", "/task delete\n"}
                     @@ 2 :> {"/nickname  bob\n", "/task add x\n", "hi\n"},
                     {}, {}))

NextMalformed ==
    \E c \in Conns :
        \/ Lifecycle(c)
        \/ Broadcast(c)
        \/ Rename(c)
        \/ TaskAdd(c)

SpecMalformed == InitMalformed /\ [][NextMalformed]_vars

----------------------------------------------------------------------------
\* the departures under fair scheduling: two clients, one that quits and one
\* that talks and hangs up. The Go scheduler lets every handler that can go on
\* go on, and a mutex.Lock() that finds the mutex free again and again returns
\* in the end (sync.Mutex hands the mutex to a starving waiter); the clients
\* owe nothing.

InitFair ==
    InitWith({1, 2},
             Clients(1 :> {"/quit\n"} @@ 2 :> {"yo\n"}, {2}, {}))

\* the steps of handler c that take the mutex
Acquire(c) == Lock(c) \/ BcastLock(c)

\* the other steps of handler c, and the listener's step for it
Handler(c) ==
    \/ Accept(c)
    \/ Register(c)
    \/ OpenLog(c)
    \/ ReadLine(c)
    \/ ReadFail(c)
    \/ Deregister(c)
    \/ BcastWrite(c)
    \/ BcastUnlock(c)

NextFair ==
    \E c \in Conns :
        \/ Send(c)
        \/ PeerClose(c)
        \/ Acquire(c)
        \/ Handler(c)

SpecFair ==
    /\ InitFair
    /\ [][NextFair]_vars
    /\ \A c \in Conns : WF_vars(Handler(c)) /\ SF_vars(Acquire(c))

----------------------------------------------------------------------------
\* what the claims speak of

Last(s) == s[Len(s)]

\* the parts of a joined list: what strings.Join put together, when no part
\* holds the separator
Split(s, sep) == SplitN(s, sep, Len(s) + 1)

\* the writes broadcast b made on handle r
BcastWrites(r, b) ==
    {i \in DOMAIN out[r] : out[r][i].tag = "bcast" /\ out[r][i].bid = b}

\* broadcast b holds the mutex and is still writing
InProgress(b) == \E c \in Conns : pc[c] = "bwrite" /\ pending[c].bid = b

BcastsOfKind(kind) == {b \in DOMAIN bcasts : bcasts[b].kind = kind}

\* C1: a chat line of session A goes out as "<A's nickname>: <line>\n", at
\* most once to a handle, only to the keys of clients at the time other than
\* A, and, once the broadcast is over, to every one of them.
C1_BroadcastExclusion ==
    \A b \in BcastsOfKind("chat") :
        LET bc == bcasts[b]
            rcpts == bc.keys \ {bc.by}
        IN  /\ InProgress(b) => bc.keys = DOMAIN clients
            /\ \A r \in Conns :
                  /\ \A i \in BcastWrites(r, b) :
                        out[r][i].data = bc.nick \o ": " \o bc.line \o "\n"
                  /\ r \notin rcpts => BcastWrites(r, b) = {}
                  /\ Cardinality(BcastWrites(r, b)) <= 1
                  /\ (r \in rcpts /\ ~InProgress(b))
                        => Cardinality(BcastWrites(r, b)) = 1

\* a finished chat broadcast of a renamed session, made while three handles
\* were registered and a fourth was not
C1_Witness ==
    \E b \in BcastsOfKind("chat") :
        /\ ~InProgress(b)
        /\ bcasts[b].nick = "bob"
        /\ Cardinality(bcasts[b].keys) = 3
        /\ \A r \in bcasts[b].keys \ {bcasts[b].by} : BcastWrites(r, b) # {}

\* the departure notices of session a
Notices(a) == {b \in BcastsOfKind("depart") : bcasts[b].by = a}

\* session a's read loop has ended: by a failed read, after /quit or not
LoopEnded(a) == pc[a] \in {"defer", "done"} /\ logFile[a] # "none"

\* C5: a session whose read loop has ended, by a failed read or after /quit,
\* has made exactly one departure broadcast; it carried the session's
\* nickname and was written once to every other handle registered at the
\* time, and never to the session itself.
C5_DepartureNotice ==
    \A a \in Conns :
        /\ Cardinality(Notices(a)) <= 1
        /\ \A b \in Notices(a), r \in Conns :
              /\ \A i \in BcastWrites(r, b) :
                    out[r][i].data = nickname[a] \o " disconnected from the chat!\n"
              /\ r \notin bcasts[b].keys \ {a} => BcastWrites(r, b) = {}
        /\ LoopEnded(a) =>
              \E b \in Notices(a) :
                  \A r \in bcasts[b].keys \ {a} :
                      Cardinality(BcastWrites(r, b)) = 1

\* session 1 has left by /quit under the nickname bob and session 2 by
\* hanging up, and each notice reached the handles registered at its time
C5_Witness ==
    /\ pc[1] = "done" /\ pc[2] = "done"
    /\ nickname[1] = "bob"
    /\ \E i \in DOMAIN out[1] : out[1][i].data = "Goodbye!\n"
    /\ peerClosed[2]
    /\ \E b \in Notices(1) : Cardinality(bcasts[b].keys) = 3
    /\ \E b \in Notices(2) : bcasts[b].keys = {2, 3}

\* C6: when handleConnection has returned, by whichever path, the handle is
\* in neither clients nor addr; a handler returns once, so it stays out.
C6_Deregistered ==
    \A c \in Conns :
        pc[c] = "done" => c \notin DOMAIN clients /\ c \notin DOMAIN addr

\* handler 1 has returned from its read loop and handler 2 because the
\* history log did not open, while both had been registered
C6_Witness ==
    /\ pc[1] = "done" /\ logFile[1] = "closed"
    /\ pc[2] = "done" /\ logFile[2] = "none"
    /\ clients = EmptyMap /\ addr = EmptyMap

\* C7, as claimed: no key of clients is a handle the server has closed, and
\* no broadcast writes to a closed handle.
C7_KeysAreOpenHandles ==
    /\ \A c \in DOMAIN clients : ~closed[c]
    /\ \A r \in Conns : \A i \in DOMAIN out[r] :
          out[r][i].tag = "bcast" => out[r][i].ok

\* the broadcasts that have written to at least one handle
Started(b) == \E r \in Conns : BcastWrites(r, b) # {}

\* the place of broadcast b among the writes on handle r
PlaceOf(r, b) == CHOOSE i \in BcastWrites(r, b) : TRUE

\* C8: broadcasts do not interleave: when a broadcast has written to a
\* handle, every broadcast that took the mutex before it has written to all
\* of its recipients; so two handles that got the same two broadcasts got
\* them in the same order.
C8_BroadcastAtomicity ==
    /\ \A b1, b2 \in DOMAIN bcasts :
          (b1 < b2 /\ Started(b2)) =>
              \A r \in bcasts[b1].keys \ {bcasts[b1].by} : BcastWrites(r, b1) # {}
    /\ \A r1, r2 \in Conns : \A i, j \in DOMAIN out[r1] :
          (i < j /\ out[r1][i].tag = "bcast" /\ out[r1][j].tag = "bcast") =>
              LET b1 == out[r1][i].bid
                  b2 == out[r1][j].bid
              IN  (BcastWrites(r2, b1) # {} /\ BcastWrites(r2, b2) # {})
                      => PlaceOf(r2, b1) < PlaceOf(r2, b2)

\* handles 3 and 4 have both received a broadcast of session 1 and one of
\* session 2
C8_Witness ==
    \E b1, b2 \in DOMAIN bcasts :
        /\ bcasts[b1].by = 1 /\ bcasts[b2].by = 2
        /\ \A r \in {3, 4} : BcastWrites(r, b1) # {} /\ BcastWrites(r, b2) # {}

\* handler c makes the step that takes it from one place to another
Steps(c, from, to) == pc[c] = from /\ pc'[c] = to

\* the nicknames a "Connected users" reply lists
Listed(data) ==
    LET body == SubSeq(data, Len("Connected users: ") + 1, Len(data) - 1)
        names == Split(body, ", ")
    IN  {names[i] : i \in DOMAIN names}

\* C2, as claimed: a "Connected users" reply lists the new nickname of every
\* registered session that has changed its nickname, and does not list the
\* nickname that session had before.
C2_OldNameNeverListed ==
    [][\A c \in Conns :
          Steps(c, "users", "read") =>
              \A a \in DOMAIN clients :
                  renamed[a].set =>
                      /\ renamed[a].new \in Listed(Last(out'[c]).data)
                      /\ renamed[a].old \notin Listed(Last(out'[c]).data)]_vars

\* C2, amended: the reply lists the current nicknames of the registered
\* sessions: the new nickname of a session that has changed it, and the old
\* one only when a registered session holds it at that time.
C2_NicknamePropagation ==
    [][\A c \in Conns :
          Steps(c, "users", "read") =>
              /\ Listed(Last(out'[c]).data) = {clients[b] : b \in DOMAIN clients}
              /\ \A a \in DOMAIN clients :
                    renamed[a].set =>
                        /\ renamed[a].new \in Listed(Last(out'[c]).data)
                        /\ renamed[a].old \in Listed(Last(out'[c]).data)
                              => \E b \in DOMAIN clients :
                                    clients[b] = renamed[a].old]_vars

\* session 2 has been told the users after session 1 became bob
C2_Witness ==
    /\ renamed[1].set /\ renamed[1].new = "bob"
    /\ \E i \in DOMAIN out[2] :
          /\ out[2][i].tag = "users"
          /\ "bob" \in Listed(out[2][i].data)

\* whether s is a subsequence of t
RECURSIVE IsSubSeq(_, _)
IsSubSeq(s, t) ==
    IF s = <<>> THEN TRUE
    ELSE IF t = <<>> THEN FALSE
    ELSE IF Head(s) = Head(t) THEN IsSubSeq(Tail(s), Tail(t))
    ELSE IsSubSeq(s, Tail(t))

\* the log entry a chat broadcast should have left
EntryOf(bc) ==
    [line |-> Now \o ": " \o bc.nick \o " - " \o bc.line \o "\n", by |-> bc.by]

IsChat(bc) == bc.kind = "chat"

\* the chat broadcasts that are over, in the order they were made
FinishedChats ==
    LET done == SelectSeq([b \in DOMAIN bcasts |-> [bc |-> bcasts[b], b |-> b]],
                          LAMBDA x : IsChat(x.bc) /\ ~InProgress(x.b))
    IN  [i \in DOMAIN done |-> EntryOf(done[i].bc)]

\* the chat broadcasts session a has begun, in the order it made them
ChatsOf(a) ==
    LET mine == SelectSeq(bcasts, LAMBDA bc : IsChat(bc) /\ bc.by = a)
    IN  [i \in DOMAIN mine |-> EntryOf(mine[i])]

EntriesOf(a) == SelectSeq(historyLog, LAMBDA e : e.by = a)

\* the lines a replay of the first n entries of the log sends
Replayed(n) == [i \in 1..n |-> historyLog[i].line]

ReplaysInLogOrder ==
    \A c \in Conns :
        /\ Len(replays[c].lines) <= Len(historyLog)
        /\ replays[c].lines = Replayed(Len(replays[c].lines))
        /\ replays[c].state = "done" => Len(replays[c].lines) >= replays[c].from

Replies(tag) ==
    UNION {{out[c][i].data : i \in {j \in DOMAIN out[c] : out[c][j].tag = tag}} :
           c \in Conns}

\* C4: each /task add got an id greater than every id handed out before it,
\* deletes or not; the ids told to the clients are those ids, one reply per
\* add, and every task of the ledger is stored under one of them.
C4_TaskIdMonotonic ==
    /\ \A i, j \in DOMAIN assigned : i < j => assigned[i] < assigned[j]
    /\ Replies("taskadd")
          = {"Task added with ID " \o Itoa(assigned[i]) \o "\n" : i \in DOMAIN assigned}
    /\ \A k \in DOMAIN tasks :
          /\ tasks[k].ID = k
          /\ \E i \in DOMAIN assigned : k = Itoa(assigned[i])

\* task 1 was added and deleted, and the next add got id 2
C4_Witness ==
    /\ assigned = <<1, 2>>
    /\ DOMAIN tasks = {"2"}
    /\ "Task deleted successfully.\n" \in Replies("taskdel")

\* what follows the command word and its space on a well-formed line
Rest(message, command) == SubSeq(message, Len(command) + 2, Len(message))

\* the entries of a /task list reply
Entries(data) ==
    LET parts == Split(SubSeq(data, 1, Len(data) - 1), "; ")
    IN  [i \in DOMAIN parts |-> parts[i]]

\* C9: /task add stores one new task, owned by the caller's nickname and
\* described by the rest of the line, and tells the caller its id; /task list
\* sends one entry for each task of the ledger, and "No tasks found." exactly
\* when there is none.
C9_TaskAddAndList ==
    [][\A c \in Conns :
          /\ (Steps(c, "taskadd", "read") /\ HasPrefix(line[c], "/task add ")) =>
                LET id == Itoa(taskIDCounter')
                IN  /\ id \notin DOMAIN tasks
                    /\ DOMAIN tasks' = DOMAIN tasks \cup {id}
                    /\ \A k \in DOMAIN tasks : tasks'[k] = tasks[k]
                    /\ tasks'[id].Owner = nickname[c]
                    /\ tasks'[id].Description = Rest(line[c], "/task add")
                    /\ Last(out'[c]).data = "Task added with ID " \o id \o "\n"
          /\ Steps(c, "tasklist", "read") =>
                LET data == Last(out'[c]).data
                IN  /\ data = "No tasks found.\n" <=> DOMAIN tasks = {}
                    /\ DOMAIN tasks # {} =>
                          /\ Len(Entries(data)) = Cardinality(DOMAIN tasks)
                          /\ {Entries(data)[i] : i \in DOMAIN Entries(data)}
                                = {"ID: " \o k \o ", Owner: " \o tasks[k].Owner
                                     \o ", Description: " \o tasks[k].Description :
                                   k \in DOMAIN tasks}]_vars

\* session 2 has been sent the list with the task bob added
C9_Witness ==
    /\ "Task added with ID 1\n" \in {out[1][i].data : i \in DOMAIN out[1]}
    /\ "ID: 1, Owner: bob, Description: fix bug\n"
          \in {out[2][i].data : i \in DOMAIN out[2]}

\* C10: /task delete removes the task with the given id and no other and
\* reports success when the ledger has it; otherwise it reports "Task not
\* found." and changes neither the ledger, the id counter nor the registry.
C10_TaskDelete ==
    [][\A c \in Conns :
          Steps(c, "taskdel", "read") =>
              LET id == Rest(line[c], "/task delete")
              IN  IF id \in DOMAIN tasks
                  THEN /\ DOMAIN tasks' = DOMAIN tasks \ {id}
                       /\ \A k \in DOMAIN tasks' : tasks'[k] = tasks[k]
                       /\ Last(out'[c]).data = "Task deleted successfully.\n"
                  ELSE /\ Last(out'[c]).data = "Task not found.\n"
                       /\ tasks' = tasks
                       /\ taskIDCounter' = taskIDCounter
                       /\ clients' = clients /\ addr' = addr]_vars

\* task 1 was deleted, and a later delete of the same id was refused while
\* the counter stood at 1
C10_Witness ==
    /\ taskIDCounter = 1 /\ tasks = EmptyMap
    /\ \E i, j \in DOMAIN out[1] :
          /\ i < j
          /\ out[1][i].data = "Task deleted successfully.\n"
          /\ out[1][j].data = "Task not found.\n"

\* handler c's broadcast makes its write on handle r in this step
WritesTo(c, r) ==
    /\ pc[c] = "bwrite"
    /\ Len(out'[r]) = Len(out[r]) + 1
    /\ Last(out'[r]).tag = "bcast"
    /\ Last(out'[r]).bid = pending[c].bid

\* C11: a broadcast writes to a recipient once and never again, whether the
\* write fails or not; after a failed write the sender goes on with the
\* recipients that are left, is told nothing, and the registry is as it was,
\* the failing recipient still in it; and when the broadcast returns, every
\* handle that was registered when it began, but the sender, has had its one
\* write.
C11_BestEffortBroadcast ==
    [][\A c \in Conns :
          /\ \A r \in Conns :
                WritesTo(c, r) =>
                    /\ BcastWrites(r, pending[c].bid) = {}
                    /\ ~Last(out'[r]).ok =>
                          /\ clients' = clients /\ addr' = addr
                          /\ r \in DOMAIN clients'
                          /\ pc'[c] = "bwrite"
                          /\ todo'[c] = todo[c] \ {r}
                          /\ pending'[c] = pending[c]
                          /\ out'[c] = out[c]
          /\ (pc[c] = "bwrite" /\ pc'[c] # "bwrite") =>
                /\ pc'[c] = pending[c].next
                /\ out' = out
                /\ \A r \in bcasts[pending[c].bid].keys \ {c} :
                      Cardinality(BcastWrites(r, pending[c].bid)) = 1]_vars

\* a broadcast is over whose write to one recipient failed and whose write to
\* another succeeded
C11_Witness ==
    \E b \in DOMAIN bcasts :
        /\ ~InProgress(b)
        /\ \E r1, r2 \in bcasts[b].keys :
              /\ \E i \in BcastWrites(r1, b) : ~out[r1][i].ok
              /\ \E i \in BcastWrites(r2, b) : out[r2][i].ok

\* handler c takes a line from its connection in this step
Reads(c) == pc[c] = "read" /\ inbox[c] # <<>> /\ inbox'[c] # inbox[c]

\* the line begins with a command that takes an argument and has none: nothing
\* follows the command but characters that are not a space
NoArgument(message) ==
    \E command \in {"/nickname", "/task add", "/task delete"} :
        /\ HasPrefix(message, command)
        /\ Index(SubSeq(message, Len(command) + 1, Len(message)), " ") = 0

\* C12: when the line a handler reads is, once trimmed, a /nickname, /task add
\* or /task delete without argument, the handler is back at its read with
\* nothing written to any handle, no broadcast made or due, no history entry,
\* and the registry, the local nickname, the ledger and the id counter as they
\* were.
C12_MalformedIgnored ==
    [][\A c \in Conns :
          (Reads(c) /\ NoArgument(TrimSpace(Head(inbox[c])))) =>
              /\ pc'[c] = "read"
              /\ out' = out
              /\ bcasts' = bcasts /\ pending' = pending
              /\ historyLog' = historyLog
              /\ clients' = clients /\ addr' = addr /\ nickname' = nickname
              /\ tasks' = tasks /\ taskIDCounter' = taskIDCounter]_vars

\* session 1 has sent "/task add" without a description after session 2 has
\* added a task, and has been sent nothing
C12_Witness ==
    /\ line[1] = "/task add" /\ pc[1] = "read" /\ inbox[1] = <<>>
    /\ out[1] = <<>>
    /\ taskIDCounter = 1 /\ DOMAIN tasks = {"1"}

\* C17: every nickname of the registry is a non-empty string, and it is
\* "Anonymous" until changeNickname has set it; the nickname a handler is
\* about to set is not empty either.
C17_NicknameNonEmpty ==
    \A c \in Conns :
        /\ c \in DOMAIN clients =>
              /\ clients[c] # ""
              /\ ~renamed[c].set => clients[c] = "Anonymous"
        /\ pc[c] = "setnick" => nickname[c] # ""

\* session 1 has sent a /nickname followed by a space only and is still
\* Anonymous, session 2 has a nickname that begins with a space
C17_Witness ==
    /\ line[1] = "/nickname" /\ pc[1] = "read" /\ inbox[1] = <<>>
    /\ 1 \in DOMAIN clients /\ clients[1] = "Anonymous"
    /\ 2 \in DOMAIN clients /\ clients[2] = " bob"

\* C13, as claimed: a handler stops only after a read of its own has failed,
\* as it does after /quit too: a handler that is leaving or has left has
\* announced its departure, and a session that was registered and has had no
\* failed read is registered still.
C13_StopsOnlyAfterReadFailure ==
    \A c \in Conns :
        /\ pc[c] \in {"defer", "done"} => Notices(c) # {}
        /\ (pc[c] \notin {"off", "idle", "register"} /\ Notices(c) = {})
              => c \in DOMAIN clients

\* C14, as claimed: a read hands the oldest pending line to handleCommands
\* and leaves every other pending line on the connection, to be read in its
\* turn; so each line is dispatched once, in the order sent.
C14_LineAtATime ==
    [][\A c \in Conns :
          Reads(c) =>
              /\ line'[c] = TrimSpace(Head(inbox[c]))
              /\ inbox'[c] = Tail(inbox[c])]_vars

\* handler c makes a step in which log.Printf reads addr[conn]: after the
\* history log has opened, after a failed read, after the reply to /nickname
LogsAddr(c) ==
    \/ Steps(c, "open", "read")
    \/ Steps(c, "read", "bcast") /\ pending'[c].kind = "depart"
    \/ Steps(c, "nickreply", "bcast")

\* handler d holds the mutex to insert its handle into clients and addr or to
\* delete it from them
Mutating(d) == mutex = d /\ pc[d] \in {"register", "defer"}

\* C15, as claimed: the registry maps are read and written under the mutex
\* only, so no handler makes a step that reads addr while another handler is
\* inside its insertion into the maps or its deletion from them.
C15_NoReadDuringMutation ==
    [][\A c, d \in Conns : (c # d /\ LogsAddr(c)) => ~Mutating(d)]_vars

\* handler c writes a reply to its own requester in this step: the answer to
\* /users, /task add, /task list, /task delete, /nickname or /quit
Answers(c) ==
    /\ Len(out'[c]) = Len(out[c]) + 1
    /\ Last(out'[c]).tag \in {"users", "taskadd", "tasklist", "taskdel", "reply"}

\* C16, as claimed: only broadcastMessage writes to a socket while it holds
\* the mutex: a handler that writes a reply to its requester does not hold the
\* mutex when it writes.
C16_RepliesWithoutMutex ==
    [][\A c \in Conns : Answers(c) => mutex # c]_vars

\* handler c is inside a locked section: the work of a lock point, or the
\* writes of a broadcast
InSection(c) == pc[c] \in LockPoints \cup {"bwrite"}

\* C18: a handler that calls broadcastMessage does not hold the mutex, and the
\* mutex is held only by a handler inside a locked section, where nothing
\* makes it wait; the mutex is taken only when it is free, by a handler at a
\* mutex.Lock() that does not hold it; and a handler that leaves its locked
\* section leaves the mutex free. So whenever a handler waits for the mutex,
\* the mutex is free or its holder is on its way to release it.
C18_NoDeadlock ==
    /\ [](\A c \in Conns :
            /\ pc[c] = "bcast" => mutex # c
            /\ mutex = c => InSection(c))
    /\ [][\A c \in Conns :
            /\ (mutex' = c /\ mutex # c) =>
                  (mutex = NoConn /\ pc[c] \in LockPoints \cup {"bcast"})
            /\ (mutex = c /\ pc'[c] # pc[c]) => mutex' = NoConn]_vars

\* session 1 is about to broadcast its change of nickname and waits for the
\* mutex, which session 2 holds to list the users
C18_Witness ==
    /\ pc[1] = "bcast" /\ pending[1].kind = "nick"
    /\ mutex = 2 /\ pc[2] = "users"

\* C20: outside changeNickname, between its assignment to the local nickname
\* and its assignment to clients[conn], the local nickname of a registered
\* session is its nickname in the registry; so the chat message or departure
\* notice the session is about to broadcast, or is broadcasting, carries the
\* name /users would list for it.
C20_NicknameConsistency ==
    \A c \in DOMAIN clients :
        /\ pc[c] # "setnick" => nickname[c] = clients[c]
        /\ pc[c] \in {"bcast", "bwrite"} =>
              /\ pending[c].kind = "chat" =>
                    pending[c].msg = clients[c] \o ": " \o line[c] \o "\n"
              /\ pending[c].kind = "depart" =>
                    pending[c].msg = clients[c] \o " disconnected from the chat!\n"

\* session 1 has become bob and is broadcasting a chat line under that name
C20_Witness ==
    /\ 1 \in DOMAIN clients /\ clients[1] = "bob" /\ nickname[1] = "bob"
    /\ pc[1] = "bwrite" /\ pending[1].msg = "bob: hi\n"

\* the connection of session c has been closed, by the peer or by /quit, and
\* the session is registered
ClosedInRegistry(c) == c \in DOMAIN clients /\ (peerClosed[c] \/ closed[c])

\* C19: a registered session whose connection has been closed, by the peer or
\* by /quit, is in the end in neither clients nor addr.
C19_EventualDeregistration ==
    \A c \in Conns :
        ClosedInRegistry(c) ~> (c \notin DOMAIN clients /\ c \notin DOMAIN addr)

\* session 1 has left by /quit while session 2 was broadcasting, and session 2
\* by hanging up, and both are out of the registry
C19_Witness ==
    /\ pc[1] = "done" /\ \E i \in DOMAIN out[1] : out[1][i].data = "Goodbye!\n"
    /\ \E i \in DOMAIN out[1] : out[1][i].tag = "bcast" /\ ~out[1][i].ok
    /\ pc[2] = "done" /\ peerClosed[2]
    /\ clients = EmptyMap /\ addr = EmptyMap

====
